---- MODULE Spec2Model ----
(***************************************************************************)
(* cargo-cite (src/src/main.rs): the run of main as a state machine.       *)
(*                                                                         *)
(* A run resolves the start directory, discovers Cargo.toml files,         *)
(* processes each one (a citation file and README sections, or in          *)
(* dependency mode one BibTeX record per dependency with a crates.io       *)
(* lookup), writes the aggregate file and prints a summary.                *)
(*                                                                         *)
(* Conventions.  Option<T> is a sequence of length at most one: <<>> is    *)
(* None and <<x>> is Some(x).  A text (a String that is written to a file  *)
(* or printed) is a sequence of lines [t |-> field, v |-> pieces].  A path *)
(* below the start directory is <<k, name>>: the entry called name in the  *)
(* directory k levels below the start directory.                           *)
(***************************************************************************)
EXTENDS Integers, Sequences, FiniteSets, TLC

\* ------------------------------------------------------------------ bounds

\* Directory levels below the start directory (level k is start/sub/.../sub).
MaxTreeDepth == 2

\* Dependencies declared by one manifest.
MaxDeps == 2

\* Largest value of --max-depth that is tried.
MaxDepthOpt == 3

\* ------------------------------------------------------------- characters

\* The characters of the strings whose text the program inspects.
Chars(s) ==
  CASE s = "Cargo.toml"       -> <<"C","a","r","g","o",".","t","o","m","l">>
    [] s = "CITATION.bib"     -> <<"C","I","T","A","T","I","O","N",".","b","i","b">>
    [] s = "DEPENDENCIES.bib" -> <<"D","E","P","E","N","D","E","N","C","I","E","S",".","b","i","b">>
    [] s = "README.md"        -> <<"R","E","A","D","M","E",".","m","d">>
    [] s = "README.bib"       -> <<"R","E","A","D","M","E",".","b","i","b">>
    [] s = "notes.txt"        -> <<"n","o","t","e","s",".","t","x","t">>
    [] s = "STDOUT"           -> <<"S","T","D","O","U","T">>
    [] s = "sub"              -> <<"s","u","b">>
    [] s = "/proj"            -> <<"/","p","r","o","j">>
    [] s = "/README-proj"     -> <<"/","R","E","A","D","M","E","-","p","r","o","j">>
    [] s = "README"           -> <<"R","E","A","D","M","E">>

\* The bytes of a dependency name (the key order of the BTreeMap is byte order).
Bytes(s) ==
  CASE s = "anyhow" -> <<97, 110, 121, 104, 111, 119>>
    [] s = "serde"  -> <<115, 101, 114, 100, 101>>
    [] s = "Zip"    -> <<90, 105, 112>>
    [] s = "toml"   -> <<116, 111, 109, 108>>

\* str::contains: pat occurs in s as a contiguous run.
Contains(s, pat) ==
  \E i \in 1..(Len(s) - Len(pat) + 1) : SubSeq(s, i, i + Len(pat) - 1) = pat

\* Ord for str: lexicographic order of the bytes.
RECURSIVE LexLess(_, _)
LexLess(a, b) ==
  IF b = <<>> THEN FALSE
  ELSE IF a = <<>> THEN TRUE
  ELSE IF Head(a) # Head(b) THEN Head(a) < Head(b)
  ELSE LexLess(Tail(a), Tail(b))

\* [String]::join(sep)
RECURSIVE Join(_, _)
Join(xs, sep) ==
  IF xs = <<>> THEN <<>>
  ELSE IF Len(xs) = 1 THEN xs
  ELSE <<Head(xs), sep>> \o Join(Tail(xs), sep)

\* The permutations of a finite set, as sequences.
RECURSIVE Perms(_)
Perms(S) ==
  IF S = {} THEN {<<>>}
  ELSE UNION {{<<x>> \o q : q \in Perms(S \ {x})} : x \in S}

\* ------------------------------------------------------------- constants

CARGO_FILE == "Cargo.toml"
CITATION_FILE == "CITATION.bib"
DEPENDENCIES_FILE == "DEPENDENCIES.bib"

Line(t, v) == [t |-> t, v |-> v]

\* ---------------------------------------------------------------- types

\* DependencyInfo::Simple(v)
Simple(v) == [simple |-> TRUE, version |-> <<v>>, path |-> <<>>, git |-> <<>>]

\* DependencyInfo::Detailed { version, path, git }
Detailed(version, path, git) ==
  [simple |-> FALSE, version |-> version, path |-> path, git |-> git]

\* CrateInfo
CrateInfo(description, repository, homepage, authors) ==
  [description |-> description, repository |-> repository,
   homepage |-> homepage, authors |-> authors]

\* PackageInfo
PackageInfo(name, version, authors, description, repository, keywords) ==
  [name |-> name, version |-> version, authors |-> authors,
   description |-> description, repository |-> repository, keywords |-> keywords]

\* ------------------------------------------------------------ PackageInfo

\* PackageInfo::build_bibtex
build_bibtex(p) ==
  <<Line("@misc", <<p.name>>),
    Line("title", <<p.name>>
                  \o (IF p.description # <<>> THEN <<": ", p.description[1]>> ELSE <<>>)),
    Line("author", Join(p.authors, " and ")),
    Line("version", <<p.version>>),
    Line("month", <<"now.month">>),
    Line("year", <<"now.year">>)>>
  \o (IF p.repository # <<>> THEN <<Line("url", <<p.repository[1]>>)>> ELSE <<>>)
  \o (IF p.keywords # <<>> THEN <<Line("keywords", Join(p.keywords[1], ", "))>> ELSE <<>>)
  \o <<Line("}", <<>>)>>

\* PackageInfo::readme_section
readme_section == <<Line("text", <<"## Citing">>)>>

\* --------------------------------------------------------- DependencyInfo

\* DependencyInfo::get_version
get_version(info) == info.version

\* get_source_info with the git source hiding the path.
get_source_info_git_wins(info) ==
  IF info.simple THEN <<<<>>, <<>>>>
  ELSE IF info.git # <<>> THEN <<<<>>, info.git>>
  ELSE <<info.path, info.git>>

\* DependencyInfo::get_source_info: (path, git)
get_source_info(info) ==
  IF info.simple THEN <<<<>>, <<>>>> ELSE <<info.path, info.git>>

\* is_regular_dependency in build_dependencies_bibtex
is_regular_dependency(info) ==
  get_source_info(info)[1] = <<>> /\ get_source_info(info)[2] = <<>>

\* ------------------------------------------------------------ ManifestInfo

\* A response of the registry: the transport result, the status and the body.
Response(transport, status, body) ==
  [transport |-> transport, status |-> status, body |-> body]

\* response.json::<CratesIoResponse>(): the body must be JSON with a crate object.
DeserializeCratesIoResponse(body) ==
  IF body.json /\ body.crate # <<>> THEN body.crate ELSE <<>>

\* The result of fetch_crate_metadata once the response is in.
fetch_crate_metadata(resp) ==
  IF resp.transport = "ok" THEN DeserializeCratesIoResponse(resp.body) ELSE <<>>

\* The lines build_dependencies_bibtex pushes before the sourcing branch.
RecordHead(name) ==
  <<Line("@misc", <<"rust-", name>>), Line("title", <<name>>)>>

\* The lines pushed for a successful registry lookup.
MetadataLines(metadata) ==
  (IF metadata.description # <<>>
     THEN <<Line("note", <<metadata.description[1]>>)>> ELSE <<>>)
  \o (IF metadata.authors # <<>> /\ metadata.authors[1] # <<>>
        THEN <<Line("author", Join(metadata.authors[1], " and "))>> ELSE <<>>)
  \o (IF metadata.repository # <<>> THEN <<Line("url", <<metadata.repository[1]>>)>>
      ELSE IF metadata.homepage # <<>> THEN <<Line("url", <<metadata.homepage[1]>>)>>
      ELSE <<>>)

\* The sourcing branch: fetched is the result of the lookup (used only when
\* the dependency has neither a path nor a git source).
SourceLines(info, fetched) ==
  LET src == get_source_info(info) IN
  IF src[1] # <<>>
    THEN <<Line("note", <<"Local dependency from path: ", src[1][1]>>)>>
  ELSE IF src[2] # <<>>
    THEN <<Line("url", <<src[2][1]>>), Line("note", <<"Git dependency">>)>>
  ELSE IF fetched # <<>> THEN MetadataLines(fetched[1])
  ELSE <<>>

\* The lines pushed after the sourcing branch.
RecordTail(name, info) ==
  (IF get_version(info) # <<>>
     THEN <<Line("version", <<get_version(info)[1]>>)>> ELSE <<>>)
  \o <<Line("year", <<"now.year">>), Line("month", <<"now.month">>)>>
  \o (IF is_regular_dependency(info)
        THEN <<Line("howpublished", <<"https://crates.io/crates/", name>>)>> ELSE <<>>)
  \o <<Line("}", <<>>)>>

\* NeedsFetch with the git arm missing.
NeedsFetchUnlessPath(info) == get_source_info(info)[1] = <<>>

\* The sourcing branch takes the crates.io arm (lines 176-182).
NeedsFetch(info) ==
  get_source_info(info)[1] = <<>> /\ get_source_info(info)[2] = <<>>

\* One whole record of build_dependencies_bibtex.
DependencyRecord(name, info, fetched) ==
  RecordHead(name) \o SourceLines(info, fetched) \o RecordTail(name, info)

\* BTreeMap<String, DependencyInfo>: the entries in key order.
RECURSIVE BTreeInsert(_, _)
BTreeInsert(sorted, e) ==
  IF sorted = <<>> THEN <<e>>
  ELSE IF LexLess(Bytes(e.name), Bytes(Head(sorted).name)) THEN <<e>> \o sorted
  ELSE <<Head(sorted)>> \o BTreeInsert(Tail(sorted), e)

\* The dependencies kept in the order of the file.
BTreeMapDeclared(declared) == declared

RECURSIVE BTreeMap(_)
BTreeMap(declared) ==
  IF declared = <<>> THEN <<>>
  ELSE BTreeInsert(BTreeMap(SubSeq(declared, 1, Len(declared) - 1)),
                   declared[Len(declared)])

\* toml::from_str::<ManifestInfo>: <<>> on an error (no [package] table, a
\* key defined twice), else the manifest with its dependencies in key order.
ParseManifest(doc) ==
  IF doc.package = <<>> THEN <<>>
  ELSE IF doc.dependencies # <<>>
          /\ \E i, j \in 1..Len(doc.dependencies[1]) :
               i # j /\ doc.dependencies[1][i].name = doc.dependencies[1][j].name
    THEN <<>>
  ELSE <<[package |-> doc.package[1],
          dependencies |-> IF doc.dependencies = <<>> THEN <<>>
                           ELSE <<BTreeMap(doc.dependencies[1])>>]>>

\* ------------------------------------------------------------ file system

RootFiles == <<"Cargo.toml", "CITATION.bib", "DEPENDENCIES.bib", "README.md",
               "README.bib", "notes.txt", "STDOUT">>
SubFiles == <<"Cargo.toml", "CITATION.bib", "README.md">>
FilesAt(k) == IF k = 0 THEN RootFiles ELSE SubFiles
Range(s) == {s[i] : i \in 1..Len(s)}
Paths == {<<k, n>> : k \in 0..MaxTreeDepth, n \in Range(RootFiles) \cup {"sub"}}
           \ {<<k, n>> : k \in 1..MaxTreeDepth, n \in Range(RootFiles) \ Range(SubFiles)}

AbsentFile == [kind |-> "absent", content |-> <<>>, r |-> TRUE, w |-> TRUE]
File(content, r, w) == [kind |-> "file", content |-> content, r |-> r, w |-> w]
Dir(r) == [kind |-> "dir", content |-> <<>>, r |-> r, w |-> TRUE]
Original == <<Line("text", <<"original">>)>>

\* Path::exists
Exists(f, p) == f[p].kind # "absent"

\* fs::write succeeds: the path is no directory and may be created or opened.
CanWrite(f, p) == f[p].kind # "dir" /\ f[p].w

\* fs::write
WriteFile(f, p, text) == [f EXCEPT ![p] = File(text, TRUE, @.w)]

\* OpenOptions::new().append(true).open succeeds.
CanAppend(f, p) == f[p].kind = "file" /\ f[p].w

\* write_all on a file opened for appending
AppendFile(f, p, text) == [f EXCEPT ![p].content = @ \o text]

\* The text of the directory k levels below start_dir, and of a path in it.
RECURSIVE DirStr(_, _)
DirStr(sd, k) ==
  IF k = 0 THEN Chars(sd) ELSE DirStr(sd, k - 1) \o <<"/">> \o Chars("sub")
PathStr(sd, p) == DirStr(sd, p[1]) \o <<"/">> \o Chars(p[2])

\* ------------------------------------------------------- find_cargo_files

\* The max_depth given to the walker, if any (lines 225-229).
WalkerMaxDepth(max_depth) ==
  IF max_depth # <<>> /\ max_depth[1] >= 0 THEN max_depth ELSE <<>>

\* WalkDir: the entries below the directory at level k, in the order they are
\* yielded.  The start directory has depth 0, so these entries have depth
\* k + 1; a directory is yielded before its contents; a directory that cannot
\* be read yields an error, which the filter_map drops.
RECURSIVE WalkEntries(_, _, _, _)
WalkEntries(f, k, limit, dirFirst) ==
  IF limit # <<>> /\ k + 1 > limit[1] THEN <<>>
  ELSE
    LET Present(n) == Exists(f, <<k, n>>)
        names == SelectSeq(FilesAt(k), Present)
        files == [i \in 1..Len(names) |-> <<k, names[i]>>]
        below == IF f[<<k, "sub">>].kind = "dir"
                   THEN <<<<k, "sub">>>>
                        \o (IF k < MaxTreeDepth /\ f[<<k, "sub">>].r
                              THEN WalkEntries(f, k + 1, limit, dirFirst) ELSE <<>>)
                   ELSE <<>>
    IN IF dirFirst THEN below \o files ELSE files \o below

find_cargo_files(f, max_depth, dirFirst) ==
  LET IsCargo(p) == f[p].kind = "file" /\ p[2] = CARGO_FILE
  IN SelectSeq(WalkEntries(f, 0, WalkerMaxDepth(max_depth), dirFirst), IsCargo)

\* ----------------------------------------------------- process_cargo_file

\* The existence check before the citation file is written (line 303).
CitationBlocked(f, p, overwrite) == Exists(f, p) /\ ~overwrite

\* The path test of the README loop (line 286).
IsReadmePath(sd, p) == Contains(PathStr(sd, p), Chars("README"))

\* The README loop (lines 284-292) over the entries in read_dir order: the
\* first append that fails ends the loop with an error.
RECURSIVE AppendReadmes(_, _, _)
AppendReadmes(f, sd, entries) ==
  IF entries = <<>> THEN [fs |-> f, err |-> FALSE]
  ELSE IF ~IsReadmePath(sd, Head(entries)) THEN AppendReadmes(f, sd, Tail(entries))
  ELSE IF ~CanAppend(f, Head(entries)) THEN [fs |-> f, err |-> TRUE]
  ELSE AppendReadmes(AppendFile(f, Head(entries), readme_section), sd, Tail(entries))

\* The entries read_dir lists for the directory at level k.
DirEntries(f, k) == {p \in Paths : p[1] = k /\ Exists(f, p)}

\* The file could not be opened, or could not be read as UTF-8: the tag of the
\* warning, or "" when the content was read (lines 251-265).
ReadFailure(f, doc, cargo_path) ==
  IF f[cargo_path].kind # "file" \/ ~f[cargo_path].r THEN "WarnOpen"
  ELSE IF ~doc.utf8 THEN "WarnRead"
  ELSE ""

\* Lines 282-311: the README sections and the citation file of one manifest.
\* ok is FALSE for an Err result.
WritePackage(f, sd, o, cargo_path, manifest, entries) ==
  LET appended == IF o.readme_append THEN AppendReadmes(f, sd, entries)
                  ELSE [fs |-> f, err |-> FALSE]
      output_file == IF o.filename # <<>> THEN o.filename[1] ELSE CITATION_FILE
      file_path == <<cargo_path[1], output_file>>
  IN IF appended.err
       THEN [fs |-> appended.fs, ok |-> FALSE, success |-> FALSE, msg |-> <<>>]
     ELSE IF CitationBlocked(appended.fs, file_path, o.overwrite)
       THEN [fs |-> appended.fs, ok |-> TRUE, success |-> FALSE, msg |-> <<"NoteExists">>]
     ELSE IF ~CanWrite(appended.fs, file_path)
       THEN [fs |-> appended.fs, ok |-> FALSE, success |-> FALSE, msg |-> <<>>]
     ELSE [fs |-> WriteFile(appended.fs, file_path, build_bibtex(manifest.package)),
           ok |-> TRUE, success |-> TRUE, msg |-> <<"Created">>]

\* ------------------------------------------------------------------- main

\* Tally with the Err arm not counted.
TallyErrUncounted(o, processed, skipped, all_deps, ok, success, deps_bibtex) ==
  IF ok /\ success
    THEN <<processed + 1, skipped,
           IF o.dependencies THEN all_deps \o deps_bibtex ELSE all_deps, <<>>>>
  ELSE IF ok THEN <<processed, skipped + 1, all_deps, <<>>>>
  ELSE <<processed, skipped, all_deps, <<"WarnError">>>>

\* The match on the result of process_cargo_file (lines 391-407):
\* <<processed, skipped, all_dependencies, messages>> after it.
Tally(o, processed, skipped, all_deps, ok, success, deps_bibtex) ==
  IF ok /\ success
    THEN <<processed + 1, skipped,
           IF o.dependencies THEN all_deps \o deps_bibtex ELSE all_deps, <<>>>>
  ELSE IF ok THEN <<processed, skipped + 1, all_deps, <<>>>>
  ELSE <<processed, skipped + 1, all_deps, <<"WarnError">>>>

\* AggregateBlocked with the negation of overwrite lost.
AggregateBlockedInverted(f, p, overwrite) == Exists(f, p) /\ overwrite

\* The existence check before the aggregate file is written (line 422).
AggregateBlocked(f, p, overwrite) == Exists(f, p) /\ ~overwrite

\* IsStdout comparing with the wrong spelling.
IsStdoutLowercase(output_file) == output_file = "stdout"

\* The aggregate output goes to standard output (line 418).
IsStdout(output_file) == output_file = "STDOUT"

\* Lines 411-430: ok is FALSE when fs::write fails and main returns the error.
WriteAggregate(f, o, all_deps) ==
  LET output_file == IF o.filename # <<>> THEN o.filename[1] ELSE DEPENDENCIES_FILE
      file_path == <<0, output_file>>
  IN IF ~(o.dependencies /\ all_deps # <<>>)
       THEN [fs |-> f, ok |-> TRUE, msg |-> <<>>]
     ELSE IF IsStdout(output_file)
       THEN [fs |-> f, ok |-> TRUE, msg |-> <<"Stdout">>]
     ELSE IF AggregateBlocked(f, file_path, o.overwrite)
       THEN [fs |-> f, ok |-> TRUE, msg |-> <<"NoteDepsExists">>]
     ELSE IF ~CanWrite(f, file_path)
       THEN [fs |-> f, ok |-> FALSE, msg |-> <<>>]
     ELSE [fs |-> WriteFile(f, file_path, all_deps), ok |-> TRUE,
           msg |-> <<"CreatedDeps">>]

\* The start directory: opt.path, else the working directory (lines 318-328).
ResolveStartDir(o, workdir) ==
  IF o.path # <<>> THEN o.path ELSE workdir

\* Lines 336-379: the manifests to process, or the message the run ends with.
Discovered(f, o, order) ==
  IF o.dependencies
    THEN LET found == find_cargo_files(f, o.max_depth, order)
         IN [files |-> found,
             halt |-> IF found = <<>> THEN <<"NoCargoFound">> ELSE <<>>]
  ELSE IF Exists(f, <<0, CARGO_FILE>>)
    THEN [files |-> <<<<0, CARGO_FILE>>>>, halt |-> <<>>]
  ELSE [files |-> <<>>, halt |-> <<"ErrNoCargo">>]

\* ------------------------------------------------------------------ state

VARIABLES
  opt,              \* CitationOption
  cwd,              \* env::current_dir(): Option of a directory
  rootExists,       \* the start directory exists
  fs,               \* the files below the start directory
  toml,             \* toml[k]: what the bytes of the Cargo.toml at level k say
  dirFirst,         \* directory order: subdirectories before files
  net,              \* the responses the registry may give during the run
  pc,               \* the position of main
  start_dir,
  cargo_files,
  idx,              \* the position of the for loop of main in cargo_files
  processed,
  skipped,
  all_dependencies,
  deps,             \* build_dependencies_bibtex: the dependencies in key order
  depIdx,           \*   the position of its for loop
  result,           \*   its result string
  outstanding,      \* registry requests sent and not yet answered
  exitCode,         \* "running", then "ok" (Ok(())) or "err" (main returned Err)
  out,              \* the tags of the messages printed
  fs0,              \* history: fs when the run started
  handled,          \* history: the paths process_cargo_file was called with
  outcomes,         \* history: how each finished call was counted
  requests,         \* history: the crate names requested
  lastResponse      \* history: the response the last record of result is built from

vars == <<opt, cwd, rootExists, fs, toml, dirFirst, net, pc, start_dir, cargo_files,
          idx, processed, skipped, all_dependencies, deps, depIdx, result,
          outstanding, exitCode, out, fs0, handled, outcomes, requests, lastResponse>>

env == <<opt, cwd, rootExists, toml, dirFirst, net, fs0>>
frame == <<deps, depIdx, result, outstanding, requests, lastResponse>>

\* ----------------------------------------------------------------- inputs

Options(dependencies, overwrite, readme_append, path, filename, max_depth) ==
  [dependencies |-> dependencies, overwrite |-> overwrite,
   readme_append |-> readme_append, path |-> path, filename |-> filename,
   max_depth |-> max_depth]

Filenames == {<<>>, <<"STDOUT">>, <<"README.bib">>}
StartDirs == {"/proj", "/README-proj"}
MaxDepthChoices == {<<>>} \cup {<<d>> : d \in (-1)..MaxDepthOpt}
DepNames == {"anyhow", "serde", "Zip"}

Foo == PackageInfo("foo", "0.1.0", <<"A B">>, <<>>, <<>>, <<>>)
FooFull == PackageInfo("foo", "0.1.0", <<"A B", "C D">>, <<"a tool">>,
                       <<"https://repo/foo">>, <<<<"cite", "bibtex">>>>)

Dep(name, info) == [name |-> name, info |-> info]
Doc(utf8, package, dependencies) ==
  [utf8 |-> utf8, package |-> package, dependencies |-> dependencies]

LocalInfo == Detailed(<<>>, <<"../local">>, <<>>)
GitInfo == Detailed(<<"0.3">>, <<>>, <<"https://git/x">>)
RegistryInfos == {Simple("1.0"), Detailed(<<>>, <<>>, <<>>)}
Infos ==
  RegistryInfos
  \cup {Detailed(<<"0.3">>, <<>>, <<>>), LocalInfo, GitInfo,
        Detailed(<<>>, <<"">>, <<>>), Detailed(<<>>, <<>>, <<"">>),
        Detailed(<<>>, <<"../local">>, <<"https://git/x">>),
        Detailed(<<"0.3">>, <<"">>, <<"https://git/x">>)}

\* The declared dependency tables with at most n entries and distinct keys.
RECURSIVE Declared(_, _, _)
Declared(names, infos, n) ==
  IF n = 0 THEN {<<>>}
  ELSE {<<>>} \cup
       UNION {{<<Dep(x, i)>> \o rest : rest \in Declared(names \ {x}, infos, n - 1)}
                : <<x, i>> \in names \X infos}

NoDoc == Doc(TRUE, <<>>, <<>>)
BadUtf8Doc == Doc(FALSE, <<>>, <<>>)
DuplicateKeyDoc ==
  Doc(TRUE, <<Foo>>, <<<<Dep("serde", Simple("1.0")), Dep("serde", LocalInfo)>>>>)

\* The manifest that the tree holds at level k.
DocAt(k) ==
  CASE k % 3 = 0 -> Doc(TRUE, <<Foo>>, <<<<Dep("serde", Simple("1.0"))>>>>)
    [] k % 3 = 1 -> Doc(TRUE, <<Foo>>, <<<<Dep("serde", Simple("1.0")),
                                           Dep("anyhow", LocalInfo)>>>>)
    [] k % 3 = 2 -> Doc(TRUE, <<Foo>>, <<<<Dep("Zip", GitInfo)>>>>)

ManifestText == <<Line("text", <<"manifest">>)>>
Plain == File(Original, TRUE, TRUE)
CargoFile == File(ManifestText, TRUE, TRUE)

\* <<the Cargo.toml file, what it says>>
BadCargoStates ==
  {<<File(ManifestText, FALSE, TRUE), NoDoc>>, <<CargoFile, BadUtf8Doc>>,
   <<CargoFile, NoDoc>>, <<CargoFile, DuplicateKeyDoc>>}
PackageCargoStates ==
  {<<AbsentFile, NoDoc>>} \cup BadCargoStates
  \cup {<<CargoFile, Doc(TRUE, <<Foo>>, <<>>)>>, <<CargoFile, Doc(TRUE, <<FooFull>>, DocAt(0).dependencies)>>}
DepsCargoStates ==
  {<<AbsentFile, NoDoc>>} \cup BadCargoStates
  \cup {<<CargoFile, Doc(TRUE, <<Foo>>, <<>>)>>, <<CargoFile, Doc(TRUE, <<Foo>>, <<<<>>>>)>>,
        <<CargoFile, DocAt(0)>>}

\* The destination before the run: absent or present, writable or not.
DestStates ==
  {AbsentFile, [AbsentFile EXCEPT !.w = FALSE], Plain, File(Original, TRUE, FALSE)}
ReadmeStates == {AbsentFile, Plain, File(Original, TRUE, FALSE)}

Metas ==
  {CrateInfo(<<>>, <<>>, <<>>, <<>>),
   CrateInfo(<<"a crate">>, <<"https://repo">>, <<"https://home">>, <<<<"A", "B">>>>),
   CrateInfo(<<>>, <<>>, <<"https://home">>, <<<<>>>>)}
Bodies ==
  {[json |-> FALSE, crate |-> <<>>], [json |-> TRUE, crate |-> <<>>]}
  \cup {[json |-> TRUE, crate |-> <<m>>] : m \in Metas}
TransportError == Response("err", 0, [json |-> FALSE, crate |-> <<>>])
AllResponses ==
  {TransportError} \cup {Response("ok", s, b) : s \in {200, 404}, b \in Bodies}
FewResponses ==
  {TransportError,
   Response("ok", 200, [json |-> TRUE,
      crate |-> <<CrateInfo(<<"a crate">>, <<"https://repo">>, <<"https://home">>,
                            <<<<"A", "B">>>>)>>])}

EmptyFs == [p \in Paths |-> AbsentFile]
SubDirs(r) ==
  [p \in {<<k, "sub">> : k \in 0..(MaxTreeDepth - 1)} |->
     IF p[1] = 0 THEN Dir(r) ELSE Dir(TRUE)]
CargoAt(levels) == [p \in {<<k, CARGO_FILE>> : k \in levels} |-> CargoFile]
ReadmeAt(levels) == [p \in {<<k, "README.md">> : k \in levels} |-> Plain]

\* ------------------------------------------------------------------- Init

InitControl ==
  /\ pc = "ResolveRoot"
  /\ start_dir = ""
  /\ cargo_files = <<>>
  /\ idx = 1
  /\ processed = 0
  /\ skipped = 0
  /\ all_dependencies = <<>>
  /\ deps = <<>>
  /\ depIdx = 1
  /\ result = <<>>
  /\ outstanding = 0
  /\ exitCode = "running"
  /\ out = <<>>
  /\ fs0 = fs
  /\ handled = <<>>
  /\ outcomes = <<>>
  /\ requests = <<>>
  /\ lastResponse = <<>>

\* A run on one directory without --dependencies.
InitPackage ==
  \E overwrite, readme \in BOOLEAN, filename \in Filenames, sd \in StartDirs,
     cargo \in PackageCargoStates, dest \in DestStates, readmeFile \in ReadmeStates :
    /\ opt = Options(FALSE, overwrite, readme,
                     IF sd = "/proj" THEN <<>> ELSE <<sd>>, filename, <<>>)
    /\ cwd = <<"/proj">>
    /\ rootExists = TRUE
    /\ fs = (<<0, CARGO_FILE>> :> cargo[1])
            @@ (<<0, IF filename # <<>> THEN filename[1] ELSE CITATION_FILE>> :> dest)
            @@ (<<0, "README.md">> :> readmeFile)
            @@ (<<0, "notes.txt">> :> Plain)
            @@ EmptyFs
    /\ toml = [k \in 0..MaxTreeDepth |-> IF k = 0 THEN cargo[2] ELSE NoDoc]
    /\ dirFirst = FALSE
    /\ net = FewResponses

\* A run with --dependencies over a tree, for every --max-depth.
InitWalk ==
  \E max_depth \in MaxDepthChoices, order, subReadable \in BOOLEAN,
     levels \in SUBSET (0..MaxTreeDepth) :
    /\ opt = Options(TRUE, FALSE, FALSE, <<"/proj">>, <<>>, max_depth)
    /\ cwd = <<"/proj">>
    /\ rootExists = TRUE
    /\ fs = CargoAt(levels) @@ SubDirs(subReadable) @@ ReadmeAt({0}) @@ EmptyFs
    /\ toml = [k \in 0..MaxTreeDepth |-> DocAt(k)]
    /\ dirFirst = order
    /\ net = FewResponses

\* A run with --dependencies, for every state of the aggregate file.
InitAggregate ==
  \E overwrite, readme \in BOOLEAN, filename \in Filenames,
     cargo \in DepsCargoStates, dest \in DestStates,
     levels \in SUBSET (1..MaxTreeDepth) :
    /\ opt = Options(TRUE, overwrite, readme, <<>>, filename, <<>>)
    /\ cwd = <<"/proj">>
    /\ rootExists = TRUE
    /\ fs = (<<0, CARGO_FILE>> :> cargo[1])
            @@ (<<0, IF filename # <<>> THEN filename[1] ELSE DEPENDENCIES_FILE>> :> dest)
            @@ CargoAt(levels) @@ SubDirs(TRUE) @@ ReadmeAt(0..MaxTreeDepth)
            @@ EmptyFs
    /\ toml = [k \in 0..MaxTreeDepth |-> IF k = 0 THEN cargo[2] ELSE DocAt(k)]
    /\ dirFirst = FALSE
    /\ net = FewResponses

\* A run with --dependencies on one manifest, for every dependency table.
InitTable ==
  \E table \in Declared(DepNames, Infos, MaxDeps) :
    /\ opt = Options(TRUE, FALSE, FALSE, <<"/proj">>, <<>>, <<0 - 1>>)
    /\ cwd = <<>>
    /\ rootExists = TRUE
    /\ fs = CargoAt({0}) @@ EmptyFs
    /\ toml = [k \in 0..MaxTreeDepth |-> Doc(TRUE, <<Foo>>, <<table>>)]
    /\ dirFirst = FALSE
    /\ net = {TransportError}

\* A run with --dependencies on registry dependencies, for every response.
InitRegistry ==
  \E table \in Declared(DepNames, RegistryInfos, MaxDeps) :
    /\ opt = Options(TRUE, FALSE, FALSE, <<"/proj">>, <<"STDOUT">>, <<>>)
    /\ cwd = <<>>
    /\ rootExists = TRUE
    /\ fs = CargoAt({0}) @@ EmptyFs
    /\ toml = [k \in 0..MaxTreeDepth |-> Doc(TRUE, <<Foo>>, <<table>>)]
    /\ dirFirst = FALSE
    /\ net = AllResponses

\* A run whose start directory is missing or cannot be resolved.
InitNoRoot ==
  \E dependencies \in BOOLEAN, path \in {<<>>, <<"/proj">>} :
    /\ opt = Options(dependencies, FALSE, FALSE, path, <<>>, <<>>)
    /\ cwd = <<>>
    /\ rootExists = FALSE
    /\ fs = EmptyFs
    /\ toml = [k \in 0..MaxTreeDepth |-> NoDoc]
    /\ dirFirst = FALSE
    /\ net = FewResponses

Init ==
  /\ InitPackage \/ InitWalk \/ InitAggregate \/ InitTable \/ InitRegistry \/ InitNoRoot
  /\ InitControl

\* ---------------------------------------------------------------- actions

Outcome(path, counted, why) == [path |-> path, counted |-> counted, why |-> why]

\* main, lines 316-334: the start directory.
ResolveRoot ==
  /\ pc = "ResolveRoot"
  /\ LET dir == ResolveStartDir(opt, cwd) IN
     IF dir = <<>>
       THEN /\ out' = Append(out, "ErrNoCwd")
            /\ pc' = "Done"
            /\ exitCode' = "ok"
            /\ UNCHANGED start_dir
     ELSE IF ~rootExists
       THEN /\ out' = Append(out, "ErrNoDir")
            /\ pc' = "Done"
            /\ exitCode' = "ok"
            /\ start_dir' = dir[1]
     ELSE /\ pc' = "Discover"
          /\ start_dir' = dir[1]
          /\ UNCHANGED <<out, exitCode>>
  /\ UNCHANGED <<env, frame, fs, cargo_files, idx, processed, skipped,
                 all_dependencies, handled, outcomes>>

\* main, lines 336-384: the manifests.
Discover ==
  /\ pc = "Discover"
  /\ LET d == Discovered(fs, opt, dirFirst) IN
       /\ cargo_files' = d.files
       /\ IF d.halt # <<>>
            THEN /\ out' = out \o d.halt
                 /\ pc' = "Done"
                 /\ exitCode' = "ok"
            ELSE /\ pc' = "ProcessEach"
                 /\ UNCHANGED <<out, exitCode>>
  /\ UNCHANGED <<env, frame, fs, start_dir, idx, processed, skipped,
                 all_dependencies, handled, outcomes>>

\* The manifest the for loop of main is at.
AtManifest == pc = "ProcessEach" /\ idx <= Len(cargo_files)
cargo_path == cargo_files[idx]
Document == toml[cargo_path[1]]

\* The counters and the accumulated text after one call of process_cargo_file.
Count(ok, success, deps_bibtex, why) ==
  LET t == Tally(opt, processed, skipped, all_dependencies, ok, success, deps_bibtex) IN
    /\ processed' = t[1]
    /\ skipped' = t[2]
    /\ all_dependencies' = t[3]
    /\ out' = out \o why \o t[4]
    /\ outcomes' = Append(outcomes,
                          Outcome(cargo_path,
                                  IF t[1] > processed THEN "processed"
                                  ELSE IF t[2] > skipped THEN "skipped" ELSE "none",
                                  IF why # <<>> THEN why[1]
                                  ELSE IF ok THEN "" ELSE "Err"))
    /\ idx' = idx + 1

\* process_cargo_file, lines 251-275: the manifest cannot be opened, read or
\* parsed; main counts the skip.
ProcessUnreadable ==
  /\ AtManifest
  /\ \/ ReadFailure(fs, Document, cargo_path) # ""
     \/ ParseManifest(Document) = <<>>
  /\ Count(TRUE, FALSE, <<>>,
           IF ReadFailure(fs, Document, cargo_path) # ""
             THEN <<ReadFailure(fs, Document, cargo_path)>> ELSE <<"WarnParse">>)
  /\ handled' = Append(handled, cargo_path)
  /\ UNCHANGED <<env, frame, fs, pc, start_dir, cargo_files, exitCode>>

\* process_cargo_file without --dependencies, lines 282-311, and the count.
ProcessPackage ==
  /\ AtManifest
  /\ ReadFailure(fs, Document, cargo_path) = ""
  /\ ParseManifest(Document) # <<>>
  /\ ~opt.dependencies
  /\ \E entries \in (IF opt.readme_append THEN Perms(DirEntries(fs, cargo_path[1]))
                     ELSE {<<>>}) :
       LET r == WritePackage(fs, start_dir, opt, cargo_path,
                             ParseManifest(Document)[1], entries) IN
         /\ fs' = r.fs
         /\ Count(r.ok, r.success, <<>>, r.msg)
  /\ handled' = Append(handled, cargo_path)
  /\ UNCHANGED <<env, frame, pc, start_dir, cargo_files, exitCode>>

\* process_cargo_file with --dependencies, line 278: build_dependencies_bibtex
\* starts on the parsed manifest.
ProcessDependencies ==
  /\ AtManifest
  /\ ReadFailure(fs, Document, cargo_path) = ""
  /\ ParseManifest(Document) # <<>>
  /\ opt.dependencies
  /\ LET manifest == ParseManifest(Document)[1] IN
       deps' = IF manifest.dependencies = <<>> THEN <<>> ELSE manifest.dependencies[1]
  /\ depIdx' = 1
  /\ result' = <<>>
  /\ lastResponse' = <<>>
  /\ pc' = "Deps"
  /\ handled' = Append(handled, cargo_path)
  /\ UNCHANGED <<env, fs, start_dir, cargo_files, idx, processed, skipped,
                 all_dependencies, outstanding, requests, exitCode, out, outcomes>>

AtDependency == pc = "Deps" /\ depIdx <= Len(deps)

\* build_dependencies_bibtex, one iteration for a path or git dependency.
DependencyLocal ==
  /\ AtDependency
  /\ ~NeedsFetch(deps[depIdx].info)
  /\ result' = result \o DependencyRecord(deps[depIdx].name, deps[depIdx].info, <<>>)
  /\ depIdx' = depIdx + 1
  /\ lastResponse' = <<>>
  /\ UNCHANGED <<env, fs, pc, start_dir, cargo_files, idx, processed, skipped,
                 all_dependencies, deps, outstanding, requests, exitCode, out,
                 handled, outcomes>>

\* build_dependencies_bibtex, lines 168-183: the head of the record, and the
\* request of fetch_crate_metadata is sent.
FetchSend ==
  /\ AtDependency
  /\ NeedsFetch(deps[depIdx].info)
  /\ result' = result \o RecordHead(deps[depIdx].name)
  /\ outstanding' = outstanding + 1
  /\ requests' = Append(requests, deps[depIdx].name)
  /\ lastResponse' = <<>>
  /\ pc' = "Await"
  /\ UNCHANGED <<env, fs, start_dir, cargo_files, idx, processed, skipped,
                 all_dependencies, deps, depIdx, exitCode, out, handled, outcomes>>

\* build_dependencies_bibtex, lines 183-214: the response is in, the rest of
\* the record is pushed.
FetchReturn ==
  /\ pc = "Await"
  /\ \E resp \in net :
       /\ result' = result
                    \o SourceLines(deps[depIdx].info, fetch_crate_metadata(resp))
                    \o RecordTail(deps[depIdx].name, deps[depIdx].info)
       /\ lastResponse' = <<resp>>
  /\ outstanding' = outstanding - 1
  /\ depIdx' = depIdx + 1
  /\ pc' = "Deps"
  /\ UNCHANGED <<env, fs, start_dir, cargo_files, idx, processed, skipped,
                 all_dependencies, deps, requests, exitCode, out, handled, outcomes>>

\* process_cargo_file, line 279: Ok((true, deps_bibtex)), and the count.
DependenciesReturn ==
  /\ pc = "Deps"
  /\ depIdx > Len(deps)
  /\ Count(TRUE, TRUE, result, <<>>)
  /\ pc' = "ProcessEach"
  /\ lastResponse' = <<>>
  /\ UNCHANGED <<env, fs, start_dir, cargo_files, deps, depIdx, result, outstanding,
                 requests, exitCode, handled>>

\* main, lines 410-430: the aggregate file.
Aggregate ==
  /\ pc = "ProcessEach"
  /\ idx > Len(cargo_files)
  /\ LET a == WriteAggregate(fs, opt, all_dependencies) IN
       /\ fs' = a.fs
       /\ out' = out \o a.msg
       /\ IF a.ok THEN pc' = "Summarize" /\ UNCHANGED exitCode
          ELSE pc' = "Done" /\ exitCode' = "err"
  /\ UNCHANGED <<env, frame, start_dir, cargo_files, idx, processed, skipped,
                 all_dependencies, handled, outcomes>>

\* main, lines 432-447: the summary.
Summarize ==
  /\ pc = "Summarize"
  /\ out' = IF processed > 0 \/ skipped > 0 THEN Append(out, "Summary") ELSE out
  /\ pc' = "Done"
  /\ exitCode' = "ok"
  /\ UNCHANGED <<env, frame, fs, start_dir, cargo_files, idx, processed, skipped,
                 all_dependencies, handled, outcomes>>

Next ==
  \/ ResolveRoot
  \/ Discover
  \/ ProcessUnreadable
  \/ ProcessPackage
  \/ ProcessDependencies
  \/ DependencyLocal
  \/ FetchSend
  \/ FetchReturn
  \/ DependenciesReturn
  \/ Aggregate
  \/ Summarize

Spec == Init /\ [][Next]_vars

\* ------------------------------------------------------------ properties

\* The number of elements of a sequence that are in a set.
CountIn(seq, S) == Cardinality({i \in 1..Len(seq) : seq[i] \in S})

\* The start of the n-th record of a text, and the n-th record.
RecordStarts(text) == {i \in 1..Len(text) : text[i].t = "@misc"}
RecordStart(text, n) ==
  CHOOSE i \in RecordStarts(text) :
    Cardinality({j \in RecordStarts(text) : j <= i}) = n
RecordAt(text, n) ==
  SubSeq(text, RecordStart(text, n),
         IF n < Cardinality(RecordStarts(text))
           THEN RecordStart(text, n + 1) - 1 ELSE Len(text))

\* The dependency names of the records of a text, in order.
Keys(text) ==
  LET IsKey(l) == l.t = "@misc"
      heads == SelectSeq(text, IsKey)
  IN [i \in 1..Len(heads) |-> heads[i].v[2]]

HasField(rec, t) == \E i \in 1..Len(rec) : rec[i].t = t
HasLine(rec, t, v) == \E i \in 1..Len(rec) : rec[i] = Line(t, v)

\* The manifest at a path can be read and parsed, by the files at the start.
Parseable(p) ==
  /\ fs0[p].kind = "file" /\ fs0[p].r
  /\ toml[p[1]].utf8
  /\ toml[p[1]].package # <<>>
  /\ toml[p[1]].dependencies # <<>> =>
       \A i, j \in 1..Len(toml[p[1]].dependencies[1]) :
         toml[p[1]].dependencies[1][i].name = toml[p[1]].dependencies[1][j].name
           => i = j

\* The dependency table a manifest declares, in the order of the file.
DeclaredAt(p) ==
  IF toml[p[1]].dependencies = <<>> THEN <<>> ELSE toml[p[1]].dependencies[1]

RECURSIVE Flatten(_)
Flatten(seqs) == IF seqs = <<>> THEN <<>> ELSE Head(seqs) \o Flatten(Tail(seqs))

\* The destination of the run: the citation file, or the aggregate file.
Destination ==
  <<0, IF opt.filename # <<>> THEN opt.filename[1]
       ELSE IF opt.dependencies THEN DEPENDENCIES_FILE ELSE CITATION_FILE>>

\* The run has no overwrite flag and its destination file exists at the start.
GuardCase ==
  /\ ~opt.overwrite
  /\ ~(opt.dependencies /\ opt.filename = <<"STDOUT">>)
  /\ Exists(fs0, Destination)

\* The manifests that failed, and the writes the existence check blocked.
Failures ==
  Cardinality({i \in 1..Len(outcomes) :
                 outcomes[i].why \in {"WarnOpen", "WarnRead", "WarnParse", "Err"}})
BlockedWrites == CountIn(out, {"NoteExists", "NoteDepsExists"})

\* C1 as stated: in a run without the overwrite flag whose destination exists
\* at the start, in either mode, the destination has its original bytes when
\* the run ends and every blocked write is counted as a skip.
C1_Original ==
  (pc = "Done" /\ GuardCase) =>
    /\ fs[Destination] = fs0[Destination]
    /\ skipped = Failures + BlockedWrites

\* C1 as amended: in a run without the overwrite flag whose destination
\* exists at the start, the destination is never replaced: it keeps its
\* original bytes, with the Citing section appended at most once and only
\* without --dependencies, with README-append and a destination whose path
\* contains "README".  Without --dependencies a blocked write is counted as a
\* skip; with --dependencies the blocked aggregate write is not counted, the
\* skipped count is the number of manifests that failed.
C1_Guard ==
  GuardCase =>
    /\ \/ fs[Destination] = fs0[Destination]
       \/ /\ ~opt.dependencies
          /\ opt.readme_append
          /\ Contains(PathStr(start_dir, Destination), Chars("README"))
          /\ fs[Destination] = [fs0[Destination] EXCEPT !.content = @ \o readme_section]
    /\ pc = "Done" =>
         skipped = Failures + (IF opt.dependencies THEN 0 ELSE BlockedWrites)

\* A dependency run ends with its aggregate write blocked and nothing skipped.
C1_Witness ==
  /\ pc = "Done"
  /\ GuardCase
  /\ opt.dependencies
  /\ BlockedWrites = 1
  /\ processed >= 1
  /\ skipped = 0

\* C2 as stated, for the runs that found a manifest: a run whose start
\* directory exists absorbs every failure on a file (a manifest, a README, a
\* citation file, the aggregate file) as a skip, reaches the summary and ends
\* with a success exit.
C2_FailuresAbsorbed ==
  (pc = "Done" /\ rootExists /\ cargo_files # <<>>) =>
    /\ exitCode = "ok"
    /\ "Summary" \in Range(out)
    /\ processed + skipped = Len(cargo_files)

\* A level whose directory the walk can reach from the start directory.
Reachable(k) == k = 0 \/ fs0[<<0, "sub">>].r

\* C3 as stated: the manifest k levels below the start directory is returned
\* by find_cargo_files exactly when max_depth is unset, negative or at least k.
C3_DepthSemantics ==
  (opt.dependencies /\ pc \notin {"ResolveRoot", "Discover"} /\ rootExists) =>
    \A k \in 0..MaxTreeDepth :
      (fs0[<<k, CARGO_FILE>>].kind = "file" /\ Reachable(k)) =>
        (<<k, CARGO_FILE>> \in Range(cargo_files)
           <=> (opt.max_depth = <<>> \/ opt.max_depth[1] < 0 \/ k <= opt.max_depth[1]))

\* The class of a dependency reference, where Given says when a path or a git
\* locator counts: path before git, a Simple reference is always Registry.
Class(info, Given(_)) ==
  IF ~info.simple /\ Given(info.path) THEN "LocalPath"
  ELSE IF ~info.simple /\ Given(info.git) THEN "VersionControl"
  ELSE "Registry"
NonEmpty(o) == o # <<>> /\ o[1] # ""
Present(o) == o # <<>>

\* What C4 says of the record of a dependency of a class.
RecordOfClass(rec, name, info, class) ==
  /\ rec[1] = Line("@misc", <<"rust-", name>>)
  /\ class = "LocalPath" =>
       /\ HasLine(rec, "note", <<"Local dependency from path: ", info.path[1]>>)
       /\ ~HasField(rec, "howpublished")
       /\ ~HasField(rec, "url")
  /\ class = "VersionControl" =>
       /\ HasLine(rec, "url", <<info.git[1]>>)
       /\ HasLine(rec, "note", <<"Git dependency">>)
       /\ ~HasField(rec, "howpublished")
  /\ HasField(rec, "howpublished") <=> class = "Registry"

\* The dependencies of the manifest in hand whose record is complete.
Completed == {i \in 1..Len(deps) : i < depIdx}

\* C4 as stated: a Detailed reference with a non-empty path is LocalPath,
\* otherwise one with a non-empty git locator is VersionControl, every other
\* reference is Registry, and the record follows the class.
C4_Original ==
  \A i \in Completed :
    RecordOfClass(RecordAt(result, i), deps[i].name, deps[i].info,
                  Class(deps[i].info, NonEmpty))

\* C4 as amended: a Detailed reference whose path is present (the empty
\* string included) is LocalPath, otherwise one whose git locator is present
\* (the empty string included) is VersionControl, every other reference is
\* Registry; a LocalPath record has the local-path note, no howpublished and
\* no url, a VersionControl record has url = locator, the git note and no
\* howpublished, and howpublished is emitted exactly for Registry.
C4_Classification ==
  \A i \in Completed :
    RecordOfClass(RecordAt(result, i), deps[i].name, deps[i].info,
                  Class(deps[i].info, Present))

\* Records are complete for a dependency with an empty path and for one with
\* both a path and a git locator.
C4_Witness ==
  /\ \E i \in Completed : deps[i].info.path = <<"">> /\ deps[i].info.git = <<>>
  /\ \E i \in Completed : deps[i].info.path = <<"../local">> /\ deps[i].info.git # <<>>

\* The names of a dependency table in the order of the file, and in the
\* ascending byte order of the names.
DeclaredNames(table) == [i \in 1..Len(table) |-> table[i].name]
AscendingNames(table) ==
  CHOOSE s \in Perms(Range(DeclaredNames(table))) :
    \A i \in 1..(Len(s) - 1) : LexLess(Bytes(s[i]), Bytes(s[i + 1]))

\* The keys of the aggregate text if every parsed manifest finished so far
\* contributes its names in the given order, manifests in discovery order.
ExpectedKeys(Order(_)) ==
  Flatten([i \in 1..Len(outcomes) |->
             IF Parseable(cargo_files[i]) THEN Order(DeclaredAt(cargo_files[i]))
             ELSE <<>>])

\* C5 as stated: with --dependencies the records of a manifest are in the
\* order of declaration, the manifests in discovery order, nothing merged.
C5_Original ==
  opt.dependencies => Keys(all_dependencies) = ExpectedKeys(DeclaredNames)

\* C5 as amended: with --dependencies the records of a manifest are in the
\* ascending byte order of the dependency names, whatever the order of
\* declaration; the blocks of the manifests are in discovery order and
\* nothing is merged, so a name in two parsed manifests yields two records.
C5_Ordering ==
  opt.dependencies => Keys(all_dependencies) = ExpectedKeys(AscendingNames)

\* Two manifests were processed, the second declares serde before anyhow, and
\* serde has two records.
C5_Witness ==
  /\ pc = "Done"
  /\ cargo_files = <<<<0, CARGO_FILE>>, <<1, CARGO_FILE>>>>
  /\ DeclaredNames(DeclaredAt(<<1, CARGO_FILE>>)) = <<"serde", "anyhow">>
  /\ Keys(all_dependencies) = <<"serde", "anyhow", "serde">>

\* The record that the last response was used for.
LastRecord == RecordAt(result, Cardinality(RecordStarts(result)))

\* C6 as stated: when the transport fails, the status is no success or the
\* body does not deserialize, the lookup yields nothing: the record has no
\* description note, author or url, and has the title, the declared version,
\* year, month and howpublished.
C6_Degradation ==
  (/\ lastResponse # <<>>
   /\ \/ lastResponse[1].transport # "ok"
      \/ lastResponse[1].status \notin 200..299
      \/ ~lastResponse[1].body.json
      \/ lastResponse[1].body.crate = <<>>) =>
    /\ ~HasField(LastRecord, "note")
    /\ ~HasField(LastRecord, "author")
    /\ ~HasField(LastRecord, "url")
    /\ HasLine(LastRecord, "title", <<deps[depIdx - 1].name>>)
    /\ deps[depIdx - 1].info.version # <<>> =>
         HasLine(LastRecord, "version", deps[depIdx - 1].info.version)
    /\ HasField(LastRecord, "year")
    /\ HasField(LastRecord, "month")
    /\ HasLine(LastRecord, "howpublished",
               <<"https://crates.io/crates/", deps[depIdx - 1].name>>)

\* The entries of a dependency table that are resolved against the registry
\* (neither a path nor a git locator), as names.
RegistryEntry(info) == info.simple \/ (info.path = <<>> /\ info.git = <<>>)
RegistryNames(table) ==
  LET IsRegistry(d) == RegistryEntry(d.info)
  IN DeclaredNames(SelectSeq(table, IsRegistry))

\* The registry names of the parsed manifests finished so far.
FinishedRegistryNames ==
  Flatten([i \in 1..Len(outcomes) |->
             IF Parseable(cargo_files[i]) THEN RegistryNames(DeclaredAt(cargo_files[i]))
             ELSE <<>>])

\* The registry entries of the manifest in hand that were reached: those with
\* a complete record, and the one whose response is awaited.
ReachedRegistryEntries ==
  IF pc \in {"Deps", "Await"}
    THEN Len(RegistryNames(SubSeq(deps, 1, depIdx - 1)))
         + (IF pc = "Await" THEN 1 ELSE 0)
    ELSE 0

\* C7: with --dependencies one request is sent for each registry entry of
\* each parsed manifest (again for a repeated name, never a second time after
\* a failure), none for a path or git entry and none without --dependencies,
\* and at most one request is outstanding: it is answered before the next
\* dependency or manifest is taken up.
C7_OneRequestPerRegistryDependency ==
  /\ outstanding \in {0, 1}
  /\ outstanding = 1 <=> pc = "Await"
  /\ opt.dependencies =>
       /\ Len(requests) = Len(FinishedRegistryNames) + ReachedRegistryEntries
       /\ pc \notin {"Deps", "Await"} =>
            \A n \in DepNames :
              CountIn(requests, {n}) = CountIn(FinishedRegistryNames, {n})
  /\ ~opt.dependencies => requests = <<>>

\* serde was requested for each of two manifests, the second of which also
\* has a path dependency, and a request failed.
C7_Witness ==
  /\ pc = "Deps"
  /\ requests = <<"serde", "serde">>
  /\ Len(deps) = 2
  /\ lastResponse = <<TransportError>>

\* The aggregate file of a run with --dependencies.
AggregatePath ==
  <<0, IF opt.filename # <<>> THEN opt.filename[1] ELSE DEPENDENCIES_FILE>>

\* C8: a run with --dependencies changes no file but the aggregate file in
\* the start directory (no citation file, no README, also with README-append),
\* and that one only when the accumulated text is not empty, the filename is
\* not STDOUT and the file is absent or overwrite is set; with STDOUT no file.
C8_Frame ==
  opt.dependencies =>
    /\ \A p \in Paths :
         (p # AggregatePath \/ opt.filename = <<"STDOUT">>) => fs[p] = fs0[p]
    /\ fs[AggregatePath] # fs0[AggregatePath] =>
         /\ all_dependencies # <<>>
         /\ opt.filename # <<"STDOUT">>
         /\ ~Exists(fs0, AggregatePath) \/ opt.overwrite
         /\ fs[AggregatePath].content = all_dependencies

\* A run with --dependencies and README-append wrote the aggregate file for
\* manifests in two directories that hold a README.
C8_Witness ==
  /\ pc = "Done"
  /\ opt.dependencies
  /\ opt.readme_append
  /\ fs[AggregatePath] # fs0[AggregatePath]
  /\ processed >= 2
  /\ Exists(fs0, <<0, "README.md">>)
  /\ Exists(fs0, <<1, "README.md">>)

\* C9 as stated, for the runs in which no append fails: without
\* --dependencies and with README-append, once the manifest is parsed the
\* Citing section is appended to the files of the directory whose name
\* contains "README" and to no other file.
C9_ReadmeFiles ==
  (/\ ~opt.dependencies
   /\ opt.readme_append
   /\ Len(outcomes) = 1
   /\ outcomes[1].why \notin {"WarnOpen", "WarnRead", "WarnParse", "Err"}) =>
    \A p \in Paths :
      (/\ p[1] = 0
       /\ fs0[p].kind = "file"
       /\ ~(p = Destination /\ "Created" \in Range(out))) =>
        IF Contains(Chars(p[2]), Chars("README"))
          THEN fs[p].content = fs0[p].content \o readme_section
          ELSE fs[p] = fs0[p]

\* The outcomes counted one way.
Counted(c) == Cardinality({i \in 1..Len(outcomes) : outcomes[i].counted = c})

\* C10: the manifests are handled one at a time in discovery order, each
\* once; each finished one raised exactly one of processed and skipped, so
\* processed + skipped is the number handled and, at the summary, the number
\* discovered; a manifest that cannot be opened, read or parsed or whose
\* write the existence check blocked is skipped; the aggregate text comes
\* only from the manifests counted as processed.
C10_Counters ==
  /\ handled = SubSeq(cargo_files, 1, Len(handled))
  /\ Len(handled) = (IF pc \in {"Deps", "Await"} THEN idx ELSE idx - 1)
  /\ Len(outcomes) = idx - 1
  /\ \A i \in 1..Len(outcomes) :
       /\ outcomes[i].path = cargo_files[i]
       /\ outcomes[i].counted \in {"processed", "skipped"}
       /\ (~Parseable(cargo_files[i]) \/ outcomes[i].why = "NoteExists")
            => outcomes[i].counted = "skipped"
  /\ processed = Counted("processed")
  /\ skipped = Counted("skipped")
  /\ processed + skipped = idx - 1
  /\ (pc = "Summarize" \/ "Summary" \in Range(out)) =>
       processed + skipped = Len(cargo_files)
  /\ Keys(all_dependencies) =
       Flatten([i \in 1..Len(outcomes) |->
                  IF opt.dependencies /\ outcomes[i].counted = "processed"
                    THEN AscendingNames(DeclaredAt(cargo_files[i])) ELSE <<>>])

\* A summary over two manifests, one processed and one skipped.
C10_Witness ==
  /\ pc = "Done"
  /\ "Summary" \in Range(out)
  /\ Len(cargo_files) = 2
  /\ processed = 1
  /\ skipped = 1
  /\ all_dependencies # <<>>

====
